---- MODULE Spec2Model ----
(***************************************************************************)
(* hadx: the packaging script setup.py.                                    *)
(*                                                                         *)
(* One invocation of the script evaluates the keyword arguments of the     *)
(* setup() call from left to right -- find_packages(where="lib"),          *)
(* glob.glob("bin/*.py"), requirements_from_file('requirements.txt') --    *)
(* and then calls setup() with the resulting configuration record.  The    *)
(* state is the file system the script reads (lib/, bin/ and               *)
(* requirements.txt below the working directory), the position of the      *)
(* running script, the arguments evaluated so far and, as history, what    *)
(* every invocation did.                                                   *)
(*                                                                         *)
(* Text is a sequence of one-character strings; a file's content is a      *)
(* sequence of bytes, the ASCII ones written as the character they encode. *)
(***************************************************************************)
EXTENDS Naturals, Sequences, FiniteSets, TLC

(* Bounds of the model. *)
MaxLen == 3
MaxEntries == 2
MaxDirs == 3
MaxDepth == 2
MaxRuns == 2

VARIABLES fs, pc, packages, scripts, install_requires, log

vars == <<fs, pc, packages, scripts, install_requires, log>>

Range(s) == {s[i] : i \in 1..Len(s)}

RECURSIVE Flatten(_)
Flatten(ss) == IF ss = <<>> THEN <<>> ELSE Head(ss) \o Flatten(Tail(ss))

(***************************************************************************)
(* open(file_name).read(): text mode, locale encoding (UTF-8), strict      *)
(* error handling, universal newlines.                                     *)
(***************************************************************************)

(* The bytes a file may hold: ASCII line feed, carriage return, form feed, *)
(* space, 'a', '#', '\', '-', and the two bytes of the UTF-8 encoding of   *)
(* U+00E9.                                                                 *)
Bytes == {"\n", "\r", "\f", " ", "a", "#", "\\", "-", "0xC3", "0xA9"}

(* The strict UTF-8 decoder: an ASCII byte is its character, 0xC3 0xA9 is  *)
(* U+00E9, a lead byte without its continuation byte or a continuation     *)
(* byte on its own is a UnicodeDecodeError.                                *)
RECURSIVE decode(_)
decode(b) ==
  IF b = <<>> THEN [ok |-> TRUE, text |-> <<>>]
  ELSE IF b[1] = "0xC3"
    THEN IF Len(b) >= 2 /\ b[2] = "0xA9"
           THEN LET r == decode(SubSeq(b, 3, Len(b)))
                IN  [ok |-> r.ok, text |-> <<"U+00E9">> \o r.text]
           ELSE [ok |-> FALSE, text |-> <<>>]
  ELSE IF b[1] = "0xA9" THEN [ok |-> FALSE, text |-> <<>>]
  ELSE LET r == decode(Tail(b))
       IN  [ok |-> r.ok, text |-> <<b[1]>> \o r.text]

(* Universal newlines (newline=None): "\r\n" and a lone "\r" are read as   *)
(* "\n".                                                                   *)
RECURSIVE translate_newlines(_)
translate_newlines(t) ==
  IF t = <<>> THEN <<>>
  ELSE IF t[1] = "\r"
    THEN IF Len(t) >= 2 /\ t[2] = "\n"
           THEN <<"\n">> \o translate_newlines(SubSeq(t, 3, Len(t)))
           ELSE <<"\n">> \o translate_newlines(Tail(t))
  ELSE <<t[1]>> \o translate_newlines(Tail(t))

(* A variant: a missing file is read as an empty one. *)
open_error_missing_is_empty(req) ==
  CASE req.status = "noperm" -> "PermissionError"
    [] req.status = "isdir"  -> "IsADirectoryError"
    [] OTHER                 -> "none"

(* What open() raises for a path that cannot be opened for reading. *)
open_error(req) ==
  CASE req.status = "missing" -> "FileNotFoundError"
    [] req.status = "noperm"  -> "PermissionError"
    [] req.status = "isdir"   -> "IsADirectoryError"
    [] OTHER                  -> "none"

(***************************************************************************)
(* str.splitlines(): a line ends at any line boundary; "\r\n" is one       *)
(* boundary; the boundary is not part of the line; no empty last line      *)
(* after a final boundary.  "\f" stands for the boundaries other than      *)
(* "\n" and "\r" (\v, \f, \x1c, \x1d, \x1e, \x85, U+2028, U+2029).         *)
(***************************************************************************)
LineBoundaries == {"\n", "\r", "\f"}

(* The index of the first line boundary of s, Len(s) + 1 when it has none. *)
find_eol(s) ==
  IF \E i \in 1..Len(s) : s[i] \in LineBoundaries
    THEN CHOOSE i \in 1..Len(s) :
           /\ s[i] \in LineBoundaries
           /\ \A j \in 1..(i - 1) : s[j] \notin LineBoundaries
    ELSE Len(s) + 1

(* A variant: splitlines(keepends=True), the line boundary left on the line. *)
RECURSIVE splitlines_keepends(_)
splitlines_keepends(s) ==
  IF s = <<>> THEN <<>>
  ELSE LET eol == find_eol(s)
           nxt == IF eol <= Len(s) /\ s[eol] = "\r" /\ eol + 1 <= Len(s)
                       /\ s[eol + 1] = "\n"
                    THEN eol + 2 ELSE eol + 1
           eok == IF nxt - 1 <= Len(s) THEN nxt - 1 ELSE Len(s)
       IN  <<SubSeq(s, 1, eok)>> \o splitlines_keepends(SubSeq(s, nxt, Len(s)))

RECURSIVE splitlines(_)
splitlines(s) ==
  IF s = <<>> THEN <<>>
  ELSE LET eol == find_eol(s)
           nxt == IF eol <= Len(s) /\ s[eol] = "\r" /\ eol + 1 <= Len(s)
                       /\ s[eol + 1] = "\n"
                    THEN eol + 2 ELSE eol + 1
       IN  <<SubSeq(s, 1, eol - 1)>> \o splitlines(SubSeq(s, nxt, Len(s)))

(* A variant: the empty lines are dropped. *)
requirements_from_file_skip_empty(req) ==
  IF open_error(req) # "none"
    THEN [error |-> open_error(req), value |-> <<>>]
  ELSE LET d == decode(req.bytes)
           Kept(l) == l # <<>>
       IN  IF ~d.ok
             THEN [error |-> "UnicodeDecodeError", value |-> <<>>]
             ELSE [error |-> "none",
                   value |-> SelectSeq(splitlines(translate_newlines(d.text)),
                                       Kept)]

(* A variant: the comment lines are dropped. *)
requirements_from_file_skip_comments(req) ==
  IF open_error(req) # "none"
    THEN [error |-> open_error(req), value |-> <<>>]
  ELSE LET d == decode(req.bytes)
           Kept(l) == ~(l # <<>> /\ l[1] = "#")
       IN  IF ~d.ok
             THEN [error |-> "UnicodeDecodeError", value |-> <<>>]
             ELSE [error |-> "none",
                   value |-> SelectSeq(splitlines(translate_newlines(d.text)),
                                       Kept)]

(* requirements_from_file(file_name): open, read to end of file, split.    *)
(* The result is the list, or the exception that leaves the function.      *)
requirements_from_file(req) ==
  IF open_error(req) # "none"
    THEN [error |-> open_error(req), value |-> <<>>]
  ELSE LET d == decode(req.bytes)
       IN  IF ~d.ok
             THEN [error |-> "UnicodeDecodeError", value |-> <<>>]
             ELSE [error |-> "none",
                   value |-> splitlines(translate_newlines(d.text))]

(***************************************************************************)
(* find_packages(where="lib"): walk lib/ top down; a directory is a        *)
(* package when its name holds no '.' and it holds a file __init__.py;     *)
(* only a package is descended into.  A package is named by its path       *)
(* relative to lib/ with the separators replaced by '.'.                   *)
(***************************************************************************)

(* Directory names, in the order the file system lists them. *)
DirNames == << <<"a">>, <<"b">>, <<"a", ".", "b">> >>

(* "/".join(path).replace("/", "."): the dotted name of a relative path.   *)
RECURSIVE dotted(_)
dotted(path) ==
  IF Len(path) = 1 THEN path[1]
  ELSE path[1] \o <<".">> \o dotted(Tail(path))

(* A variant: every directory counts as a package, marked or not. *)
looks_like_package_unmarked(lib, path) == path \in lib.dirs

looks_like_package(lib, path) == path \in lib.init

(* The sub-directories of root that are packages, in listing order. *)
package_dirs(lib, root) ==
  LET Keep(n) == /\ (root \o <<n>>) \in lib.dirs
                 /\ "." \notin Range(n)
                 /\ looks_like_package(lib, root \o <<n>>)
  IN  SelectSeq(DirNames, Keep)

RECURSIVE walk(_, _)
walk(lib, root) ==
  LET kept == package_dirs(lib, root)
  IN  [i \in 1..Len(kept) |-> dotted(root \o <<kept[i]>>)]
      \o Flatten([i \in 1..Len(kept) |-> walk(lib, root \o <<kept[i]>>)])

find_packages(lib) ==
  IF lib.status = "dir" THEN walk(lib, <<>>) ELSE <<>>

(***************************************************************************)
(* glob.glob("bin/*.py"): the names os.scandir("bin") lists, in that       *)
(* order (none when bin cannot be listed), without the hidden ones, that   *)
(* fnmatch "*.py"; each joined to "bin/".                                  *)
(***************************************************************************)
listdir(bin) ==
  IF bin.status = "dir"
    THEN [i \in 1..Len(bin.entries) |-> bin.entries[i].name]
    ELSE <<>>

(* A variant: hidden names are matched like the others. *)
ishidden_never(name) == FALSE

ishidden(name) == name[1] = "."

(* fnmatch.fnmatch(name, "*.py"): the regular expression (?s:.*\.py)\Z.    *)
fnmatch(name) ==
  /\ Len(name) >= 3
  /\ SubSeq(name, Len(name) - 2, Len(name)) = <<".", "p", "y">>

glob1(bin) ==
  LET Match(n) == ~ishidden(n) /\ fnmatch(n)
  IN  SelectSeq(listdir(bin), Match)

path_join(name) == <<"b", "i", "n", "/">> \o name

(* A variant: the pattern itself is returned when nothing matches it, as   *)
(* a shell does.                                                           *)
glob_glob_pattern_when_none(bin) ==
  LET names == glob1(bin)
  IN  IF names = <<>> THEN << path_join(<<"*", ".", "p", "y">>) >>
      ELSE [i \in 1..Len(names) |-> path_join(names[i])]

glob_glob(bin) ==
  LET names == glob1(bin)
  IN  [i \in 1..Len(names) |-> path_join(names[i])]

(***************************************************************************)
(* The file systems the script is run against.                             *)
(***************************************************************************)
Contents == UNION {[1..k -> Bytes] : k \in 0..MaxLen}

ReqFiles ==
  {[status |-> "file", bytes |-> b] : b \in Contents}
  \cup {[status |-> s, bytes |-> <<>>] : s \in {"missing", "noperm", "isdir"}}

(* Entries of bin/: a file with its content, or a directory with the       *)
(* files in it.                                                            *)
BinNames ==
  { <<"a", ".", "p", "y">>, <<"b", ".", "p", "y">>, <<".", "a", ".", "p", "y">>,
    <<".", "p", "y">>, <<"a", ".", "p", "y", "c">>, <<"p", "y">> }

BinEntries ==
  {[name |-> n, kind |-> "file", data |-> c] : n \in BinNames, c \in {"x", "y"}}
  \cup {[name |-> n, kind |-> "dir", data |-> "a.py"] : n \in BinNames}

RECURSIVE Listings(_)
Listings(k) ==
  IF k = 0 THEN {<<>>}
  ELSE LET shorter == Listings(k - 1)
       IN  shorter \cup
           {Append(l, e) : l \in {x \in shorter : Len(x) = k - 1},
                           e \in BinEntries}

DistinctNames(l) ==
  \A i, j \in 1..Len(l) : l[i].name = l[j].name => i = j

BinDirs ==
  {[status |-> "dir", entries |-> l] :
     l \in {x \in Listings(MaxEntries) : DistinctNames(x)}}
  \cup {[status |-> s, entries |-> <<>>] : s \in {"missing", "file"}}

(* Directory trees below lib/: prefix-closed sets of paths, and the        *)
(* directories among them that hold __init__.py.                           *)
RECURSIVE PathsTo(_)
PathsTo(d) ==
  IF d = 0 THEN {<<>>}
  ELSE LET shorter == PathsTo(d - 1)
       IN  shorter \cup
           {Append(p, n) : p \in {x \in shorter : Len(x) = d - 1},
                           n \in Range(DirNames)}

DirPaths == PathsTo(MaxDepth) \ {<<>>}

Addable(t) ==
  {q \in DirPaths : Len(q) > 1 => SubSeq(q, 1, Len(q) - 1) \in t}

RECURSIVE Trees(_)
Trees(k) ==
  IF k = 0 THEN {{}}
  ELSE LET smaller == Trees(k - 1)
       IN  smaller \cup UNION {{t \cup {p} : p \in Addable(t)} : t \in smaller}

LibDirs ==
  UNION {{[status |-> "dir", dirs |-> t, init |-> m] : m \in SUBSET t} :
           t \in Trees(MaxDirs)}
  \cup {[status |-> "missing", dirs |-> {}, init |-> {}]}

(* A usual tree: one package, one script, one requirement. *)
Lib0 == [status |-> "dir", dirs |-> {<< <<"a">> >>}, init |-> {<< <<"a">> >>}]
Bin0 ==
  [status |-> "dir",
   entries |-> <<[name |-> <<"a", ".", "p", "y">>, kind |-> "file", data |-> "x"]>>]
Req0 == [status |-> "file", bytes |-> <<"a", "\n">>]

FsReq == {[lib |-> Lib0, bin |-> Bin0, req |-> r] : r \in ReqFiles}
FsBin == {[lib |-> Lib0, bin |-> b, req |-> Req0] : b \in BinDirs}
FsLib == {[lib |-> l, bin |-> Bin0, req |-> Req0] : l \in LibDirs}

(* Every combination of the trees with at most one directory below lib/,   *)
(* at most one entry in bin/ and at most one byte in requirements.txt.     *)
FsAll ==
  {[lib |-> l, bin |-> b, req |-> r] :
     l \in {x \in LibDirs : Cardinality(x.dirs) <= 1},
     b \in {x \in BinDirs : Len(x.entries) <= 1},
     r \in {x \in ReqFiles : Len(x.bytes) <= 1}}

(***************************************************************************)
(* The script.                                                             *)
(***************************************************************************)

(* The keyword arguments of the setup() call. *)
config(p, s, r) ==
  [name |-> "hadx", version |-> "1.0.0", package_dir |-> ("" :> "lib"),
   packages |-> p, scripts |-> s, install_requires |-> r]

(* What the running invocation has done: log's last entry. *)
Done(step) ==
  [log EXCEPT ![Len(log)].steps = Append(@, step)]

InitOn(trees) ==
  /\ fs \in trees
  /\ pc = "idle"
  /\ packages = <<>>
  /\ scripts = <<>>
  /\ install_requires = <<>>
  /\ log = <<>>

(* python3 setup.py ...: the interpreter starts on the script. *)
Invoke ==
  /\ pc = "idle"
  /\ Len(log) < MaxRuns
  /\ pc' = "packages"
  /\ packages' = <<>>
  /\ scripts' = <<>>
  /\ install_requires' = <<>>
  /\ log' = Append(log, [fs |-> fs, steps |-> <<>>, error |-> "none",
                         handed |-> <<>>])
  /\ UNCHANGED fs

(* A variant: a tree without packages is an error. *)
EvalPackages_none_is_error ==
  /\ pc = "packages"
  /\ packages' = <<find_packages(fs.lib)>>
  /\ IF find_packages(fs.lib) = <<>>
       THEN /\ pc' = "idle"
            /\ log' = [Done("find_packages") EXCEPT
                         ![Len(log)].error = "ValueError"]
       ELSE /\ pc' = "scripts"
            /\ log' = Done("find_packages")
  /\ UNCHANGED <<fs, scripts, install_requires>>

(* packages=find_packages(where="lib") *)
EvalPackages ==
  /\ pc = "packages"
  /\ packages' = <<find_packages(fs.lib)>>
  /\ pc' = "scripts"
  /\ log' = Done("find_packages")
  /\ UNCHANGED <<fs, scripts, install_requires>>

(* A variant: the scripts found by the invocation before are kept. *)
EvalScripts_kept_across_runs ==
  /\ pc = "scripts"
  /\ scripts' = <<(IF Len(log) > 1 /\ log[Len(log) - 1].handed # <<>>
                     THEN log[Len(log) - 1].handed[1].scripts ELSE <<>>)
                  \o glob_glob(fs.bin)>>
  /\ pc' = "requirements"
  /\ log' = Done("glob")
  /\ UNCHANGED <<fs, packages, install_requires>>

(* A variant: the hand-off follows without the read of requirements.txt. *)
EvalScripts_then_setup ==
  /\ pc = "scripts"
  /\ scripts' = <<glob_glob(fs.bin)>>
  /\ pc' = "setup"
  /\ log' = Done("glob")
  /\ UNCHANGED <<fs, packages, install_requires>>

(* scripts=glob.glob("bin/*.py") *)
EvalScripts ==
  /\ pc = "scripts"
  /\ scripts' = <<glob_glob(fs.bin)>>
  /\ pc' = "requirements"
  /\ log' = Done("glob")
  /\ UNCHANGED <<fs, packages, install_requires>>

(* install_requires=requirements_from_file('requirements.txt'): the list,  *)
(* or the exception, which nothing catches and which ends the script.      *)
EvalInstallRequires ==
  /\ pc = "requirements"
  /\ LET r == requirements_from_file(fs.req)
     IN  \/ /\ r.error = "none"
            /\ install_requires' = <<r.value>>
            /\ pc' = "setup"
            /\ log' = Done("requirements_from_file")
         \/ /\ r.error # "none"
            /\ install_requires' = install_requires
            /\ pc' = "idle"
            /\ log' = [Done("requirements_from_file") EXCEPT
                         ![Len(log)].error = r.error]
  /\ UNCHANGED <<fs, packages, scripts>>

(* setup(name=..., ..., install_requires=...): the hand-off. *)
CallSetup ==
  /\ pc = "setup"
  /\ pc' = "idle"
  /\ log' = [Done("setup") EXCEPT
               ![Len(log)].handed =
                  <<config(packages[1], scripts[1], install_requires[1])>>]
  /\ UNCHANGED <<fs, packages, scripts, install_requires>>

(* Between two invocations requirements.txt is removed or renamed. *)
RemoveRequirements ==
  /\ pc = "idle"
  /\ Len(log) < MaxRuns
  /\ fs.req.status = "file"
  /\ fs' = [fs EXCEPT !.req = [status |-> "missing", bytes |-> <<>>]]
  /\ UNCHANGED <<pc, packages, scripts, install_requires, log>>

Next ==
  \/ Invoke
  \/ EvalPackages
  \/ EvalScripts
  \/ EvalInstallRequires
  \/ CallSetup
  \/ RemoveRequirements

Spec == InitOn(FsAll) /\ [][Next]_vars
SpecReq == InitOn(FsReq) /\ [][Next]_vars
SpecBin == InitOn(FsBin) /\ [][Next]_vars
SpecLib == InitOn(FsLib) /\ [][Next]_vars

(***************************************************************************)
(* What the properties speak of.                                           *)
(***************************************************************************)

(* Invocation r has ended: by the hand-off or by an exception. *)
Finished(r) == r < Len(log) \/ pc = "idle"

Min(S) == CHOOSE x \in S : \A y \in S : x <= y

(* The k-th smallest element of a set of numbers. *)
Nth(S, k) == CHOOSE x \in S : Cardinality({y \in S : y < x}) = k - 1

(* The text of a file whose bytes are valid UTF-8. *)
TextOf(req) == decode(req.bytes).text

(* The lines of a text, stated on the text itself: a line terminator ends  *)
(* at i when t[i] is a line boundary and not the "\r" of a "\r\n"; a line  *)
(* starts at the first character and after every terminator, if any        *)
(* character is left, and runs up to the next boundary.                    *)
TermEnds(t) ==
  {i \in 1..Len(t) :
     /\ t[i] \in LineBoundaries
     /\ ~(t[i] = "\r" /\ i < Len(t) /\ t[i + 1] = "\n")}

LineStarts(t) == {s \in 1..Len(t) : s = 1 \/ (s - 1) \in TermEnds(t)}

LineAt(t, s) ==
  LET e == Min({j \in s..Len(t) : t[j] \in LineBoundaries} \cup {Len(t) + 1})
  IN  SubSeq(t, s, e - 1)

LinesOf(t) ==
  [k \in 1..Cardinality(LineStarts(t)) |-> LineAt(t, Nth(LineStarts(t), k))]

NonEmpty(l) == l # <<>>
IsEmpty(l) == l = <<>>

(* The kinds of line pip's requirements format treats specially, and a     *)
(* specifier that is no valid requirement.                                 *)
IsComment(l) == l # <<>> /\ l[1] = "#"
IsContinuation(l) == l # <<>> /\ l[Len(l)] = "\\"
IsOption(l) == l # <<>> /\ l[1] = "-"
IsInvalid(l) ==
  \/ l # <<>> /\ l[1] = "\\"
  \/ \E i \in 2..(Len(l) - 1) : l[i - 1] = "a" /\ l[i] = " " /\ l[i + 1] = "a"
IsSpecial(l) == IsComment(l) \/ IsContinuation(l) \/ IsOption(l) \/ IsInvalid(l)

(* C1, as amended: install_requires has one entry per line of              *)
(* requirements.txt, the empty lines included: with N non-empty and B      *)
(* empty lines it has N + B entries, and its non-empty entries are the     *)
(* non-empty lines, in file order, each equal to its line.                 *)
C1_EntryPerLineEmptyIncluded ==
  pc = "setup" =>
    LET lines == LinesOf(TextOf(fs.req))
        v == install_requires[1]
    IN  /\ Len(v) = Len(SelectSeq(lines, NonEmpty)) + Len(SelectSeq(lines, IsEmpty))
        /\ SelectSeq(v, NonEmpty) = SelectSeq(lines, NonEmpty)
        /\ \A k \in 1..Len(v) : (v[k] = <<>>) = (lines[k] = <<>>)

(* C1 as stated: with N non-empty lines the list has exactly N entries,    *)
(* the non-empty lines in file order.                                      *)
C1_ExactlyTheNonEmptyLines ==
  pc = "setup" =>
    install_requires[1] = SelectSeq(LinesOf(TextOf(fs.req)), NonEmpty)

(* A file with a requirement and an empty line has been read. *)
C1_Witness ==
  /\ pc = "setup"
  /\ \E i, j \in 1..Len(install_requires[1]) :
       install_requires[1][i] = <<"a">> /\ install_requires[1][j] = <<>>

(* C8: a comment line, a line ending in a backslash, an option line and an *)
(* invalid specifier each are one entry of install_requires, at the line's *)
(* place and equal to the line's text; none is dropped, none is joined to  *)
(* the next line.                                                          *)
C8_NoLineHandledSpecially ==
  pc = "setup" =>
    LET lines == LinesOf(TextOf(fs.req))
        v == install_requires[1]
    IN  /\ \A k \in 1..Len(lines) :
             IsSpecial(lines[k]) => k <= Len(v) /\ v[k] = lines[k]
        /\ Len(SelectSeq(v, IsSpecial)) = Len(SelectSeq(lines, IsSpecial))

(* A line that ends in a backslash, followed by a requirement, has been    *)
(* read as two entries.                                                    *)
C8_Witness ==
  /\ pc = "setup"
  /\ \E i \in 1..(Len(install_requires[1]) - 1) :
       /\ IsContinuation(install_requires[1][i])
       /\ install_requires[1][i + 1] = <<"a">>

(* C10: install_requires is the sequence of the file's lines: one entry    *)
(* per line terminator, and one more for a last line without terminator;   *)
(* what the entries hold is the text without its line terminators, the     *)
(* blanks kept; an empty file gives the empty list.                        *)
C10_OneEntryPerLine ==
  pc = "setup" =>
    LET t == TextOf(fs.req)
        v == install_requires[1]
        NotBoundary(c) == c \notin LineBoundaries
    IN  /\ v = LinesOf(t)
        /\ Len(v) = Cardinality(TermEnds(t))
                      + (IF t # <<>> /\ Len(t) \notin TermEnds(t) THEN 1 ELSE 0)
        /\ Flatten(v) = SelectSeq(t, NotBoundary)
        /\ (fs.req.bytes = <<>> => v = <<>>)

(* An empty line and a line of one blank, with the terminator at the end   *)
(* of the file, have been read as two entries.                             *)
C10_Witness ==
  /\ pc = "setup"
  /\ fs.req.bytes = <<"\n", " ", "\n">>
  /\ install_requires[1] = << <<>>, <<" ">> >>

(***************************************************************************)
(* Failure of the read.                                                    *)
(***************************************************************************)
FileAccessErrors == {"FileNotFoundError", "PermissionError", "IsADirectoryError"}

StepOrder == <<"find_packages", "glob", "requirements_from_file", "setup">>

IsPrefix(s, t) == Len(s) <= Len(t) /\ s = SubSeq(t, 1, Len(s))

Count(s, x) == Cardinality({i \in 1..Len(s) : s[i] = x})

(* requirements.txt is absent, may not be read, or is no regular file. *)
CannotBeOpened(req) == req.status \in {"missing", "noperm", "isdir"}

(* The bytes are valid UTF-8, stated on the bytes: every lead byte is      *)
(* followed by a continuation byte, every continuation byte follows a      *)
(* lead byte.                                                              *)
ValidText(b) ==
  \A i \in 1..Len(b) :
    /\ b[i] = "0xC3" => i < Len(b) /\ b[i + 1] = "0xA9"
    /\ b[i] = "0xA9" => i > 1 /\ b[i - 1] = "0xC3"

(* requirements.txt exists and is readable as text. *)
ReadableAsText(req) == req.status = "file" /\ ValidText(req.bytes)

(* C2: an invocation that finds requirements.txt missing or unreadable     *)
(* ends with the error raised by the one attempt to read it: setup() is    *)
(* not called, no record is handed over, and install_requires gets no      *)
(* value; the error is a file-access error when the file is absent or      *)
(* cannot be opened.                                                       *)
C2_MissingFileFailsBeforeSetup ==
  \A r \in 1..Len(log) :
    ~ReadableAsText(log[r].fs.req) =>
      /\ log[r].handed = <<>>
      /\ "setup" \notin Range(log[r].steps)
      /\ Count(log[r].steps, "requirements_from_file") <= 1
      /\ (r = Len(log) => pc # "setup" /\ install_requires = <<>>)
      /\ (Finished(r) =>
            /\ log[r].error # "none"
            /\ CannotBeOpened(log[r].fs.req) =>
                 log[r].error \in FileAccessErrors
            /\ log[r].steps[Len(log[r].steps)] = "requirements_from_file")

(* After a first invocation handed a record over, requirements.txt was     *)
(* removed and the second invocation failed.                               *)
C2_Witness ==
  /\ Len(log) = 2
  /\ pc = "idle"
  /\ log[1].handed # <<>>
  /\ log[2].fs.req.status = "missing"
  /\ log[2].error = "FileNotFoundError"

(* C3: an invocation ends with the hand-off of a record if                 *)
(* requirements.txt is readable as text, whatever lib/ and bin/ hold, and  *)
(* with an error if it is not.                                             *)
C3_OnlyFailureIsTheRequirementsFile ==
  \A r \in 1..Len(log) :
    Finished(r) =>
      /\ ReadableAsText(log[r].fs.req) =>
           log[r].handed # <<>> /\ log[r].error = "none"
      /\ ~ReadableAsText(log[r].fs.req) =>
           log[r].handed = <<>> /\ log[r].error # "none"

(* A record with no package and no script has been handed over. *)
C3_Witness ==
  \E r \in 1..Len(log) :
    /\ log[r].handed # <<>>
    /\ log[r].handed[1].packages = <<>>
    /\ log[r].handed[1].scripts = <<>>
    /\ log[r].fs.lib.status = "dir"
    /\ log[r].fs.bin.status = "dir"

C9_HandOffLastAndOnce ==
  /\ \A r \in 1..Len(log) :
       /\ IsPrefix(log[r].steps, StepOrder)
       /\ (log[r].handed # <<>>) = ("setup" \in Range(log[r].steps))
  /\ pc = "setup" =>
       packages # <<>> /\ scripts # <<>> /\ install_requires # <<>>

(* The hand-off has taken place. *)
C9_Witness ==
  /\ pc = "idle"
  /\ Len(log) >= 1
  /\ log[Len(log)].steps = StepOrder
  /\ log[Len(log)].handed # <<>>

(***************************************************************************)
(* bin/                                                                    *)
(***************************************************************************)

(* The name ends in ".py". *)
EndsInPy(n) == \E k \in 0..Len(n) : n = SubSeq(n, 1, k) \o <<".", "p", "y">>

(* The path of an entry of bin/, and of a file in a directory of bin/. *)
PathInBin(n) == <<"b", "i", "n", "/">> \o n
NestedPaths(bin) ==
  {PathInBin(bin.entries[i].name) \o <<"/", "a", ".", "p", "y">> :
     i \in {j \in 1..Len(bin.entries) : bin.entries[j].kind = "dir"}}

(* bin/ has no entry that the pattern bin/*.py matches. *)
NoMatch(bin) ==
  \A i \in 1..Len(bin.entries) :
    ~(EndsInPy(bin.entries[i].name) /\ bin.entries[i].name[1] # ".")

(* C5: with no entry of bin/ matching the pattern, or with no directory    *)
(* bin/, the enumeration gives the empty list and raises nothing: the      *)
(* script goes on to read requirements.txt, and a record handed over has   *)
(* the empty scripts list.                                                 *)
C5_NoMatchGivesEmptyScripts ==
  \A r \in 1..Len(log) :
    (NoMatch(log[r].fs.bin) /\ "glob" \in Range(log[r].steps)) =>
      /\ (r = Len(log) /\ pc # "idle") => scripts = << <<>> >>
      /\ (r = Len(log) /\ log[r].steps[Len(log[r].steps)] = "glob") =>
           pc = "requirements" /\ log[r].error = "none"
      /\ log[r].handed # <<>> => log[r].handed[1].scripts = <<>>

(* A record has been handed over with bin/ missing. *)
C5_Witness ==
  \E r \in 1..Len(log) :
    /\ log[r].fs.bin.status = "missing"
    /\ log[r].handed # <<>>
    /\ log[r].handed[1].scripts = <<>>

(* C7, as amended: the scripts list is, in the order bin/ is listed, the    *)
(* paths of the entries directly in bin/ whose name ends in ".py" and does *)
(* not begin with "."; nothing but the names of the entries decides it.    *)
C7_ScriptsByNameNotHidden ==
  scripts # <<>> =>
    LET names == [i \in 1..Len(fs.bin.entries) |-> fs.bin.entries[i].name]
        Listed(n) == EndsInPy(n) /\ n[1] # "."
        chosen == SelectSeq(names, Listed)
    IN  /\ scripts[1] = [i \in 1..Len(chosen) |-> PathInBin(chosen[i])]
        /\ NestedPaths(fs.bin) \cap Range(scripts[1]) = {}

(* C7 as stated: an entry is in the list if and only if it is directly in  *)
(* bin/ and its name ends in ".py".                                        *)
C7_ScriptsByExtensionAlone ==
  scripts # <<>> =>
    /\ \A i \in 1..Len(fs.bin.entries) :
         (PathInBin(fs.bin.entries[i].name) \in Range(scripts[1]))
           = EndsInPy(fs.bin.entries[i].name)
    /\ NestedPaths(fs.bin) \cap Range(scripts[1]) = {}

(* bin/ with a script and a hidden .py file has been enumerated. *)
C7_Witness ==
  /\ scripts = << << PathInBin(<<"a", ".", "p", "y">>) >> >>
  /\ \E i \in 1..Len(fs.bin.entries) :
       fs.bin.entries[i].name = <<".", "a", ".", "p", "y">>

(***************************************************************************)
(* lib/                                                                    *)
(***************************************************************************)

(* The directory, and every directory between lib/ and it, holds           *)
(* __init__.py and has no "." in its name.                                 *)
Discoverable(lib, d) ==
  \A k \in 1..Len(d) :
    /\ SubSeq(d, 1, k) \in lib.init
    /\ "." \notin Range(d[k])

====
